---- MODULE Spec2Model ----
(***************************************************************************)
(* Industrial Defect Detection Scanner: DefectDetector (defect_detector.py) *)
(* and the handlers of DefectDetectionGUI (gui.py).                         *)
(*                                                                         *)
(* Number representation.  Python floats are modelled in fixed point:      *)
(*   - area_mm, min_defect_size, aspect_ratio, circularity: thousandths    *)
(*     (5.0 is 5000, 0.33 is 330);                                         *)
(*   - area_pixels (cv2.contourArea): half pixels (area2 = 2*area_pixels), *)
(*     contourArea of an integer polygon is a multiple of 0.5;             *)
(*   - perimeter (cv2.arcLength): tenths of a pixel.                       *)
(* Quotients are truncated to the thousandth.  For the dimensions used     *)
(* here (below 333 pixels) truncation never moves a value across one of    *)
(* the classifier's thresholds 3.0 and 0.33.                               *)
(*                                                                         *)
(* An image is abstracted to what cv2.findContours can find in it: the     *)
(* regions in discovery order, each with the gradient range of its         *)
(* boundary (what Canny's two thresholds act on) and its geometry.         *)
(*                                                                         *)
(* Of the window, the fields of DefectDetectionGUI, the Scale variables,   *)
(* the pending scan_loop callbacks and the message box of the last handler *)
(* are modelled; the contents of the image labels and of the statistics    *)
(* text are not.                                                           *)
(***************************************************************************)
EXTENDS Integers, Sequences, FiniteSets, TLC

VARIABLES
    \* DefectDetector fields
    min_defect_size, edge_threshold1, edge_threshold2,
    \* the caller's side of DefectDetector.detect_defects
    arg_image,      \* the image the caller holds and passes
    ret,            \* what the last call returned (a result, or it raised)
    call,           \* the image and the detector fields that call read
    requested,      \* the arguments of the latest update_* calls
    lastOp,         \* the operation that ran last
    calls,          \* detect_defects calls since the last update_* call
    \* DefectDetectionGUI fields
    current_image, current_image_path, detection_results,
    cap, is_scanning, pending,
    min_size_var, threshold1_var, threshold2_var,
    dialog,         \* the messagebox the last handler showed
    report,         \* the last report written by export_report
    \* _classify_defect called on its own
    features,       \* its arguments <<area_mm, aspect_ratio, circularity>>
    category        \* its return value, "" before the call

detectorVars == <<min_defect_size, edge_threshold1, edge_threshold2>>
callerVars == <<arg_image, ret, call, requested>>
guiVars == <<current_image, current_image_path, detection_results, cap,
             is_scanning, pending, min_size_var, threshold1_var,
             threshold2_var, dialog, report>>
classifyVars == <<features, category>>
vars == <<detectorVars, callerVars, lastOp, calls, guiVars, classifyVars>>

\* ------------------------------------------------------------------ bounds
\* Longest contour list of an image handed to the detector directly.
MaxContours == 2
\* Most detect_defects calls in a row between two update_* calls.
MaxCalls == 2
\* Most scan_loop callbacks the Tk timer queue is let to hold.
MaxPending == 2

\* ------------------------------------------------------- program constants
DefaultMinDefectSize == 5000
DefaultEdgeThreshold1 == 50
DefaultEdgeThreshold2 == 150
\* area_mm = area_pixels * 0.1, in thousandths
PixelToMm == 100
\* 4 * np.pi, in thousandths
FourPi == 12566
\* _classify_defect thresholds, in thousandths
CrackAspectHigh == 3000
CrackAspectLow == 330
HoleCircularity == 700
IrregularCircularity == 300
MisalignmentAreaLow == 10000
MisalignmentAreaHigh == 50000

\* ---------------------------------------------------------------- regions
\* A region of an image: the weakest and the strongest gradient along its
\* boundary, and the contour cv2.findContours returns for it.
Region(id, floor, peak, area2, perim10, x, y, w, h) ==
    [id |-> id, floor |-> floor, peak |-> peak, area2 |-> area2,
     perim10 |-> perim10, x |-> x, y |-> y, w |-> w, h |-> h]

\* 41x6 scratch: aspect_ratio 6.83
RScratch == Region(1, 200, 255, 400, 900, 10, 20, 41, 6)
\* disc of radius 10: circularity 1.0
RDisc == Region(2, 200, 255, 628, 628, 60, 20, 21, 21)
\* star: circularity 0.03
RStar == Region(3, 200, 255, 200, 2000, 10, 60, 30, 30)
\* 30x15 rectangle: area_mm 45.0, circularity 0.698
RShift == Region(4, 200, 255, 900, 900, 60, 60, 31, 16)
\* 40x20 rectangle: area_mm 80.0
RLarge == Region(5, 200, 255, 1600, 1200, 100, 10, 41, 21)
\* 10x5 rectangle: area_mm exactly 5.0, the default min_defect_size
RSmall == Region(6, 200, 255, 100, 300, 100, 60, 11, 6)
\* area_pixels 49.5: area_mm 4.95, just under the default min_defect_size
RNoise == Region(7, 200, 255, 99, 300, 130, 60, 11, 6)
\* faint 20x10 rectangle: found with thresholds (50, 150), lost with (100, 200)
RFaint == Region(8, 80, 180, 400, 600, 10, 100, 21, 11)
\* a single point: area 0, perimeter 0
RPoint == Region(9, 200, 255, 0, 0, 50, 100, 1, 1)
\* an empty contour: bounding box (0, 0, 0, 0)
REmpty == Region(10, 200, 255, 0, 0, 0, 0, 0, 0)

RegionPool == {RScratch, RDisc, RStar, RShift, RLarge, RSmall, RNoise,
               RFaint, RPoint, REmpty}

\* ----------------------------------------------------------------- images
\* kind "grid": a decoded BGR image of `width` pixels; the others are what
\* cv2.cvtColor rejects: None, an array with a zero dimension, a value that
\* is no pixel grid.  draw is what has been drawn on the pixels.
ImageWidth == 200

GridImage(regions) ==
    [kind |-> "grid", width |-> ImageWidth, regions |-> regions, draw |-> <<>>]
NoneImage == [kind |-> "None", width |-> 0, regions |-> <<>>, draw |-> <<>>]
EmptyImage == [kind |-> "empty", width |-> 0, regions |-> <<>>, draw |-> <<>>]
NotGridImage == [kind |-> "notgrid", width |-> 0, regions |-> <<>>, draw |-> <<>>]

InvalidImages == {NoneImage, EmptyImage, NotGridImage}

InjectiveSeqs(S, n) ==
    {s \in UNION {[1..k -> S] : k \in 0..n} :
        \A i, j \in DOMAIN s : s[i] = s[j] => i = j}

ValidImages == {GridImage(s) : s \in InjectiveSeqs(RegionPool, MaxContours)}

\* ------------------------------------------------- DefectDetector: helpers
\* Python's float division: a / b raises ZeroDivisionError when b is 0.
\* a is scaled by the caller; the quotient is truncated.
FloatDiv(a, b) ==
    [ok |-> b # 0, val |-> IF b # 0 THEN a \div b ELSE 0]

Value(v) == [ok |-> TRUE, val |-> v]

\* (variant: an array with a zero dimension is converted, not rejected)
CvtColorAcceptsEmpty(image) == image.kind \in {"grid", "empty"}
\* cv2.cvtColor(image, COLOR_BGR2GRAY) raises unless image is a BGR grid.
CvtColorAccepts(image) == image.kind = "grid"

\* cv2.Canny with hysteresis, dilation and cv2.findContours(RETR_EXTERNAL):
\* a region's boundary comes out as one closed contour when all of it is
\* above the lower threshold and some of it above the upper one.
EdgeSurvives(region, threshold1, threshold2) ==
    region.floor > threshold1 /\ region.peak > threshold2

FindContours(image, threshold1, threshold2) ==
    SelectSeq(image.regions, LAMBDA r : EdgeSurvives(r, threshold1, threshold2))

\* cv2.contourArea, in half pixels
ContourArea(contour) == contour.area2

\* area_mm = area_pixels * 0.1
AreaMm(area2) == (area2 * PixelToMm) \div 2

\* (variant: a contour exactly at the threshold is discarded too)
TooSmallLax(area_mm, min_size) == area_mm <= min_size
\* if area_mm < self.min_defect_size: continue
TooSmall(area_mm, min_size) == area_mm < min_size

\* cv2.boundingRect
BoundingRect(contour) == <<contour.x, contour.y, contour.w, contour.h>>

\* (variant: the division without its guard)
AspectRatioUnguarded(w, h) == FloatDiv(w * 1000, h)
\* aspect_ratio = float(w) / h if h > 0 else 0
AspectRatio(w, h) == IF h > 0 THEN FloatDiv(w * 1000, h) ELSE Value(0)

\* cv2.arcLength(contour, True), in tenths of a pixel
ArcLength(contour) == contour.perim10

\* circularity = 4 * np.pi * area_pixels / (perimeter * perimeter), 0 when
\* the perimeter is 0
Circularity(area2, perim10) ==
    IF perim10 > 0
    THEN FloatDiv(FourPi * area2 * 50, perim10 * perim10)
    ELSE Value(0)

\* ------------------------------------------------------- _classify_defect
Categories == {"Crack", "Hole", "Irregular Shape", "Misalignment",
               "Large Defect", "Small Defect"}

\* (variant: the Hole rule tested before the Crack rule)
classify_defect_hole_first(area_mm, aspect_ratio, circularity) ==
    IF circularity > HoleCircularity THEN "Hole"
    ELSE IF aspect_ratio > CrackAspectHigh \/ aspect_ratio < CrackAspectLow
    THEN "Crack"
    ELSE IF circularity < IrregularCircularity THEN "Irregular Shape"
    ELSE IF MisalignmentAreaLow < area_mm /\ area_mm < MisalignmentAreaHigh
    THEN "Misalignment"
    ELSE IF area_mm > MisalignmentAreaHigh THEN "Large Defect"
    ELSE "Small Defect"

classify_defect(area_mm, aspect_ratio, circularity) ==
    IF aspect_ratio > CrackAspectHigh \/ aspect_ratio < CrackAspectLow
    THEN "Crack"
    ELSE IF circularity > HoleCircularity THEN "Hole"
    ELSE IF circularity < IrregularCircularity THEN "Irregular Shape"
    ELSE IF MisalignmentAreaLow < area_mm /\ area_mm < MisalignmentAreaHigh
    THEN "Misalignment"
    ELSE IF area_mm > MisalignmentAreaHigh THEN "Large Defect"
    ELSE "Small Defect"

\* ------------------------------------------------------ _get_defect_color
White == <<255, 255, 255>>

\* (variant: the last key misspelt, so 'Small Defect' has no entry)
colors_small_missing ==
    [t \in (Categories \ {"Small Defect"}) \cup {"Small defect"} |->
        CASE t = "Crack" -> <<0, 0, 255>>
          [] t = "Hole" -> <<255, 0, 0>>
          [] t = "Irregular Shape" -> <<0, 165, 255>>
          [] t = "Misalignment" -> <<0, 255, 255>>
          [] t = "Large Defect" -> <<255, 0, 255>>
          [] t = "Small defect" -> <<0, 255, 0>>]

\* colors = {...}, BGR
colors ==
    [t \in Categories |->
        CASE t = "Crack" -> <<0, 0, 255>>
          [] t = "Hole" -> <<255, 0, 0>>
          [] t = "Irregular Shape" -> <<0, 165, 255>>
          [] t = "Misalignment" -> <<0, 255, 255>>
          [] t = "Large Defect" -> <<255, 0, 255>>
          [] t = "Small Defect" -> <<0, 255, 0>>]

get_defect_color(defect_type) ==
    IF defect_type \in DOMAIN colors THEN colors[defect_type] ELSE White

\* ----------------------------------------- DefectDetector.detect_defects
\* label = f"{defect_type}: {area_mm:.1f}mm2": the area to one decimal
Label(defect_type, area_mm) ==
    [type |-> defect_type, tenths |-> (area_mm + 50) \div 100]

\* drawContours, rectangle and putText for one defect
Drawing(contour, defect_type, area_mm) ==
    LET bbox == BoundingRect(contour)
        color == get_defect_color(defect_type)
    IN  [contour |-> contour.id,
         rect |-> <<bbox[1], bbox[2], bbox[1] + bbox[3], bbox[2] + bbox[4]>>,
         label |-> Label(defect_type, area_mm),
         org |-> <<bbox[1], bbox[2] - 10>>,
         color |-> color]

\* annotated_image = image.copy()
Copy(image) == image

\* The array the drawing calls write to.  image.copy() allocates a new one,
\* so annotated_image and the caller's image are two arrays.
\* (variant: annotated_image = image, the caller's own array)
AnnotatedIsInput == "input"
AnnotatedBuffer == "copy"

\* (variant: the list of the previous call is reused)
StaleDefects ==
    IF ret.status = "returned" /\ Len(ret.defects) < 2 * MaxContours
    THEN ret.defects ELSE <<>>
\* defects = []
NewDefects == <<>>

\* (variant: the defect is put in front)
Prepend(defects, defect) == <<defect>> \o defects
\* defects.append(defect)
AppendDefect(defects, defect) == Append(defects, defect)

\* The body of the for loop for one contour.  acc holds the loop's state:
\* raised (an exception left the loop), defects and annotated_image.
ContourStep(acc, contour, min_size) ==
    LET area_pixels == ContourArea(contour)
        area_mm == AreaMm(area_pixels)
        bbox == BoundingRect(contour)
        aspect_ratio == AspectRatio(bbox[3], bbox[4])
        circularity == Circularity(area_pixels, ArcLength(contour))
        defect_type == classify_defect(area_mm, aspect_ratio.val, circularity.val)
        defect == [type |-> defect_type,
                   area_mm |-> area_mm,
                   area_pixels |-> area_pixels,
                   bbox |-> bbox,
                   aspect_ratio |-> aspect_ratio.val,
                   circularity |-> circularity.val,
                   contour |-> contour.id]
    IN  IF acc.raised THEN acc
        ELSE IF TooSmall(area_mm, min_size) THEN acc
        ELSE IF ~aspect_ratio.ok \/ ~circularity.ok
        THEN [acc EXCEPT !.raised = TRUE]
        ELSE [raised |-> FALSE,
              defects |-> AppendDefect(acc.defects, defect),
              annotated_image |->
                  [acc.annotated_image EXCEPT
                      !.draw = Append(@, Drawing(contour, defect_type, area_mm))]]

RECURSIVE ContourLoop(_, _, _, _)
ContourLoop(acc, contours, i, min_size) ==
    IF i > Len(contours) THEN acc
    ELSE ContourLoop(ContourStep(acc, contours[i], min_size), contours, i + 1,
                     min_size)

\* total_area = sum(d['area_mm'] for d in defects)
RECURSIVE SumAreaMm(_)
SumAreaMm(defects) ==
    IF defects = <<>> THEN 0
    ELSE Head(defects).area_mm + SumAreaMm(Tail(defects))

\* (variant: the total taken over area_pixels)
RECURSIVE SumAreaPixels(_)
SumAreaPixels(defects) ==
    IF defects = <<>> THEN 0
    ELSE Head(defects).area_pixels + SumAreaPixels(Tail(defects))

TotalAreaInPixels(defects) == SumAreaPixels(defects)
TotalArea(defects) == SumAreaMm(defects)

\* defect_types[defect_type] = defect_types.get(defect_type, 0) + 1
DictGet(dict, key, default) == IF key \in DOMAIN dict THEN dict[key] ELSE default

\* (variant: the count is set to 1, not incremented)
CountOnce(defect_types, defect_type) ==
    [k \in DOMAIN defect_types \cup {defect_type} |->
        IF k = defect_type THEN 1 ELSE defect_types[k]]
CountType(defect_types, defect_type) ==
    [k \in DOMAIN defect_types \cup {defect_type} |->
        IF k = defect_type THEN DictGet(defect_types, defect_type, 0) + 1
        ELSE defect_types[k]]

RECURSIVE CountTypes(_, _, _)
CountTypes(defect_types, defects, i) ==
    IF i > Len(defects) THEN defect_types
    ELSE CountTypes(CountType(defect_types, defects[i].type), defects, i + 1)

\* 'pass': total_defects == 0, 'fail': total_defects > 0
\* (variant: fail tested with >=)
FailLax(total_defects) == total_defects >= 0
Pass(total_defects) == total_defects = 0
Fail(total_defects) == total_defects > 0

Statistics(defects) ==
    LET total_defects == Len(defects)
    IN  [total_defects |-> total_defects,
         total_area_mm |-> TotalArea(defects),
         defect_types |-> CountTypes(<<>>, defects, 1),
         pass |-> Pass(total_defects),
         fail |-> Fail(total_defects)]

Raised == [status |-> "raised"]
NoCall == [status |-> "none"]

detect_defects(image, min_size, threshold1, threshold2) ==
    IF ~CvtColorAccepts(image) THEN Raised
    ELSE
        LET contours == FindContours(image, threshold1, threshold2)
            acc == ContourLoop([raised |-> FALSE,
                                defects |-> NewDefects,
                                annotated_image |-> Copy(image)],
                               contours, 1, min_size)
        IN  IF acc.raised THEN Raised
            ELSE [status |-> "returned",
                  defects |-> acc.defects,
                  annotated_image |-> acc.annotated_image,
                  statistics |-> Statistics(acc.defects)]

\* The caller's image after detect_defects(image) gave `result`: what was
\* drawn is in it only when the drawing went to its own array.
InputAfter(image, result) ==
    IF AnnotatedBuffer = "input" /\ result.status = "returned"
    THEN result.annotated_image
    ELSE image

\* ------------------------------------------------------------ construction
NoneResult == [status |-> "None"]
NoReport == [written |-> FALSE, image_name |-> "", results |-> NoneResult]

\* DefectDetector.__init__
InitDetector ==
    /\ min_defect_size = DefaultMinDefectSize
    /\ edge_threshold1 = DefaultEdgeThreshold1
    /\ edge_threshold2 = DefaultEdgeThreshold2

\* A caller that holds one of `images` and has called nothing yet.
InitCaller(images) ==
    /\ arg_image \in images
    /\ ret = NoCall
    /\ call = [image |-> NoneImage, min_size |-> DefaultMinDefectSize,
               threshold1 |-> DefaultEdgeThreshold1,
               threshold2 |-> DefaultEdgeThreshold2]
    /\ requested = [min_size |-> DefaultMinDefectSize,
                    threshold1 |-> DefaultEdgeThreshold1,
                    threshold2 |-> DefaultEdgeThreshold2]
    /\ lastOp = "init"
    /\ calls = 0

\* DefectDetectionGUI.__init__ and setup_ui
InitGui ==
    /\ current_image = NoneImage
    /\ current_image_path = ""
    /\ detection_results = NoneResult
    /\ cap = "None"
    /\ is_scanning = FALSE
    /\ pending = 0
    /\ min_size_var = DefaultMinDefectSize
    /\ threshold1_var = DefaultEdgeThreshold1
    /\ threshold2_var = DefaultEdgeThreshold2
    /\ dialog = "none"
    /\ report = NoReport

NoFeatures == <<0, 0, 0>>

Init ==
    /\ InitDetector
    /\ InitCaller(ValidImages \cup InvalidImages)
    /\ InitGui
    /\ features = NoFeatures
    /\ category = ""

\* ------------------------------------------- DefectDetector, called directly
\* Arguments a caller passes to the update methods.
SizeChoices == {0, DefaultMinDefectSize, 20000}
ThresholdChoices == {<<DefaultEdgeThreshold1, DefaultEdgeThreshold2>>,
                     <<100, 200>>}

\* result = detector.detect_defects(image)
DefectDetector_detect_defects(image) ==
    /\ calls < MaxCalls
    /\ calls' = calls + 1
    /\ ret' = detect_defects(image, min_defect_size, edge_threshold1,
                             edge_threshold2)
    /\ arg_image' = InputAfter(image, ret')
    /\ call' = [image |-> image, min_size |-> min_defect_size,
                threshold1 |-> edge_threshold1,
                threshold2 |-> edge_threshold2]
    /\ lastOp' = "detect_defects"
    /\ UNCHANGED <<detectorVars, requested, guiVars, classifyVars>>

\* (variant: the new size is not stored)
update_min_defect_size_ignored(size) ==
    /\ requested' = [requested EXCEPT !.min_size = size]
    /\ lastOp' = "update_min_defect_size"
    /\ calls' = 0
    /\ UNCHANGED <<detectorVars, arg_image, ret, call, guiVars, classifyVars>>
\* detector.update_min_defect_size(size)
update_min_defect_size(size) ==
    /\ min_defect_size' = size
    /\ requested' = [requested EXCEPT !.min_size = size]
    /\ lastOp' = "update_min_defect_size"
    /\ calls' = 0
    /\ UNCHANGED <<edge_threshold1, edge_threshold2, arg_image, ret, call, guiVars, classifyVars>>

\* detector.update_thresholds(threshold1, threshold2)
update_thresholds(threshold1, threshold2) ==
    /\ edge_threshold1' = threshold1
    /\ edge_threshold2' = threshold2
    /\ requested' = [requested EXCEPT !.threshold1 = threshold1,
                                      !.threshold2 = threshold2]
    /\ lastOp' = "update_thresholds"
    /\ calls' = 0
    /\ UNCHANGED <<min_defect_size, arg_image, ret, call, guiVars, classifyVars>>

CallDetect == DefectDetector_detect_defects(arg_image)
CallUpdateMinDefectSize == \E size \in SizeChoices : update_min_defect_size(size)
CallUpdateThresholds ==
    \E t \in ThresholdChoices : update_thresholds(t[1], t[2])

Next == CallDetect \/ CallUpdateMinDefectSize \/ CallUpdateThresholds

Spec == Init /\ [][Next]_vars

\* ------------------------------------------- _classify_defect on its own
\* Values on, next to and away from each threshold, in thousandths.
AreaInputs == {0, 5000, 10000, 10001, 30000, 49999, 50000, 50001, 80000}
AspectInputs == {0, 329, 330, 331, 1000, 3000, 3001, 5000, 10000}
CircularityInputs == {0, 299, 300, 301, 500, 700, 701, 900, 1000, 1200}

InitClassify ==
    /\ InitDetector
    /\ InitCaller({NoneImage})
    /\ InitGui
    /\ features \in AreaInputs \X AspectInputs \X CircularityInputs
    /\ category = ""

\* category = self._classify_defect(area_mm, aspect_ratio, circularity)
CallClassify ==
    /\ category = ""
    /\ category' = classify_defect(features[1], features[2], features[3])
    /\ UNCHANGED <<detectorVars, callerVars, lastOp, calls, guiVars, features>>

SpecClassify == InitClassify /\ [][CallClassify]_vars

\* ------------------------------------------------------ DefectDetectionGUI
\* What the file dialog can return: two decodable images, a file cv2.imread
\* cannot decode, and "" when the dialog is cancelled.
Files == {"/parts/bracket.png", "/parts/plate.png", "/parts/notes.txt"}

\* cv2.imread(file_path): None for a file it cannot decode
Imread(file_path) ==
    CASE file_path = "/parts/bracket.png" -> GridImage(<<RShift, RNoise, RSmall>>)
      [] file_path = "/parts/plate.png" -> GridImage(<<RFaint>>)
      [] OTHER -> NoneImage

\* Path(file_path).name
PathName(file_path) ==
    CASE file_path = "/parts/bracket.png" -> "bracket.png"
      [] file_path = "/parts/plate.png" -> "plate.png"
      [] file_path = "/parts/notes.txt" -> "notes.txt"
      [] OTHER -> file_path

\* Frames self.cap.read() can deliver.
CameraFrames == {GridImage(<<RDisc, RScratch>>)}

\* cv2.flip(frame, 1): mirror about the vertical axis
Flip(frame) ==
    [frame EXCEPT !.regions =
        [i \in DOMAIN frame.regions |->
            [frame.regions[i] EXCEPT
                !.x = frame.width - frame.regions[i].x - frame.regions[i].w]]]

\* The Scale widgets' positions used here (min size 1.0..20.0 in steps of
\* 0.5, threshold 1 10..200, threshold 2 50..300).
MinSizeScale == {DefaultMinDefectSize, 20000}
Threshold1Scale == {DefaultEdgeThreshold1, 100}
Threshold2Scale == {DefaultEdgeThreshold2}

GuiStep(op) ==
    /\ lastOp' = op
    /\ UNCHANGED <<arg_image, classifyVars>>

\* load_image
load_image(file_path) ==
    /\ GuiStep("load_image")
    /\ IF file_path = "" THEN
           /\ dialog' = "none"
           /\ UNCHANGED <<current_image, current_image_path, detection_results>>
       ELSE IF Imread(file_path) = NoneImage THEN
           /\ dialog' = "showerror"
           /\ UNCHANGED <<current_image, current_image_path, detection_results>>
       ELSE
           /\ current_image' = Imread(file_path)
           /\ current_image_path' = file_path
           /\ detection_results' = NoneResult
           /\ dialog' = "none"
    /\ UNCHANGED <<detectorVars, ret, call, requested, calls, cap, is_scanning,
                   pending, min_size_var, threshold1_var, threshold2_var, report>>

\* update_settings, with the Scale variables at the given values
update_settings(min_size, threshold1, threshold2) ==
    /\ min_defect_size' = min_size
    /\ edge_threshold1' = threshold1
    /\ edge_threshold2' = threshold2
    /\ requested' = [min_size |-> min_size, threshold1 |-> threshold1,
                     threshold2 |-> threshold2]

\* A Scale is moved: Tk stores the value in its variable and calls
\* command=self.update_settings.
MoveScale(min_size, threshold1, threshold2) ==
    /\ GuiStep("update_settings")
    /\ <<min_size, threshold1, threshold2>> #
           <<min_size_var, threshold1_var, threshold2_var>>
    /\ min_size_var' = min_size
    /\ threshold1_var' = threshold1
    /\ threshold2_var' = threshold2
    /\ update_settings(min_size, threshold1, threshold2)
    /\ calls' = 0
    /\ UNCHANGED <<ret, call, current_image, current_image_path,
                   detection_results, cap, is_scanning, pending, dialog, report>>

\* DefectDetectionGUI.detect_defects
gui_detect_defects ==
    /\ GuiStep("gui_detect_defects")
    /\ UNCHANGED <<current_image_path, cap, is_scanning, pending,
                   min_size_var, threshold1_var, threshold2_var, report>>
    /\ IF current_image = NoneImage THEN
           /\ dialog' = "showwarning"
           /\ UNCHANGED <<detectorVars, ret, call, requested, calls,
                          current_image, detection_results>>
       ELSE
           /\ update_settings(min_size_var, threshold1_var, threshold2_var)
           /\ calls' = 1
           /\ call' = [image |-> current_image, min_size |-> min_size_var,
                       threshold1 |-> threshold1_var,
                       threshold2 |-> threshold2_var]
           /\ ret' = detect_defects(current_image, min_size_var, threshold1_var,
                                    threshold2_var)
           /\ current_image' = InputAfter(current_image, ret')
           /\ IF ret'.status = "raised" THEN
                  /\ dialog' = "showerror"
                  /\ UNCHANGED detection_results
              ELSE
                  /\ detection_results' = ret'
                  /\ dialog' = "none"

\* scan_loop: reads a frame when there is one and schedules itself again.
\* got_frame is cap.read()'s ret, frame its image.
ScanLoopBody(got_frame, frame) ==
    /\ current_image' = IF got_frame THEN Copy(Flip(frame)) ELSE current_image

\* toggle_scan, when no scan runs: start_scan.  opened is cap.isOpened().
start_scan(opened, got_frame, frame) ==
    /\ GuiStep("start_scan")
    /\ ~is_scanning
    /\ pending < MaxPending
    /\ IF ~opened THEN
           /\ cap' = "unopened"
           /\ dialog' = "showerror"
           /\ UNCHANGED <<is_scanning, current_image, pending>>
       ELSE
           /\ cap' = "open"
           /\ is_scanning' = TRUE
           /\ ScanLoopBody(got_frame, frame)
           /\ pending' = pending + 1
           /\ dialog' = "none"
    /\ UNCHANGED <<detectorVars, ret, call, requested, calls, current_image_path,
                   detection_results, min_size_var, threshold1_var,
                   threshold2_var, report>>

\* toggle_scan, when a scan runs: stop_scan
stop_scan ==
    /\ GuiStep("stop_scan")
    /\ is_scanning
    /\ is_scanning' = FALSE
    /\ cap' = "None"
    /\ dialog' = "none"
    /\ UNCHANGED <<detectorVars, ret, call, requested, calls, current_image,
                   current_image_path, detection_results, pending, min_size_var,
                   threshold1_var, threshold2_var, report>>

\* A callback scheduled by root.after(30, self.scan_loop) runs.
scan_loop(got_frame, frame) ==
    /\ GuiStep("scan_loop")
    /\ pending > 0
    /\ IF ~is_scanning THEN
           /\ pending' = pending - 1
           /\ UNCHANGED current_image
       ELSE
           /\ ScanLoopBody(got_frame, frame)
           /\ pending' = pending
    /\ UNCHANGED <<detectorVars, ret, call, requested, calls, current_image_path,
                   detection_results, cap, is_scanning, min_size_var,
                   threshold1_var, threshold2_var, dialog, report>>

\* export_report; file_path is what asksaveasfilename returned
export_report(file_path) ==
    /\ GuiStep("export_report")
    /\ IF detection_results = NoneResult THEN
           /\ dialog' = "showwarning"
           /\ UNCHANGED report
       ELSE IF file_path = "" THEN
           /\ dialog' = "none"
           /\ UNCHANGED report
       ELSE
           /\ report' = [written |-> TRUE,
                         image_name |-> IF current_image_path # ""
                                        THEN PathName(current_image_path)
                                        ELSE "Camera Scan",
                         results |-> detection_results]
           /\ dialog' = "showinfo"
    /\ UNCHANGED <<detectorVars, ret, call, requested, calls, current_image,
                   current_image_path, detection_results, cap, is_scanning,
                   pending, min_size_var, threshold1_var, threshold2_var>>

ClickLoadImage == \E file_path \in Files \cup {""} : load_image(file_path)
ClickDetect == gui_detect_defects
ScaleMoved ==
    \E m \in MinSizeScale, t1 \in Threshold1Scale, t2 \in Threshold2Scale :
        /\ \/ (t1 = threshold1_var /\ t2 = threshold2_var)
           \/ (m = min_size_var /\ t2 = threshold2_var)
           \/ (m = min_size_var /\ t1 = threshold1_var)
        /\ MoveScale(m, t1, t2)
ClickStartScan ==
    \E opened, got_frame \in BOOLEAN, frame \in CameraFrames :
        start_scan(opened, got_frame, frame)
ClickStopScan == stop_scan
TimerFires ==
    \E got_frame \in BOOLEAN, frame \in CameraFrames : scan_loop(got_frame, frame)
ClickExport == \E file_path \in {"", "/reports/out.csv"} : export_report(file_path)

\* The application: the window's handlers and the timer.
InitGuiSpec ==
    /\ InitDetector
    /\ InitCaller({NoneImage})
    /\ InitGui
    /\ features = NoFeatures
    /\ category = ""

NextGui ==
    \/ ClickLoadImage
    \/ ClickDetect
    \/ ScaleMoved
    \/ ClickStartScan
    \/ ClickStopScan
    \/ TimerFires
    \/ ClickExport

SpecGui == InitGuiSpec /\ [][NextGui]_vars

\* The file workflow of the window (load, move a scale, detect), next to a
\* caller that hands the same detector an image itself: one of those
\* cv2.cvtColor rejects, or one it accepts.
InitInput ==
    /\ InitDetector
    /\ InitCaller(InvalidImages \cup {GridImage(<<RLarge>>)})
    /\ InitGui
    /\ features = NoFeatures
    /\ category = ""

NextInput ==
    \/ ClickLoadImage
    \/ ClickDetect
    \/ ScaleMoved
    \/ CallDetect

SpecInput == InitInput /\ [][NextInput]_vars

\* =================================================================== claims
\* The contours the last call extracted, and those that pass its size filter.
Extracted == FindContours(call.image, call.threshold1, call.threshold2)
Survivors == SelectSeq(Extracted, LAMBDA c : AreaMm(c.area2) >= call.min_size)
Returned == ret.status = "returned"

RECURSIVE SeqSum(_, _)
SeqSum(f, n) == IF n = 0 THEN 0 ELSE f[n] + SeqSum(f, n - 1)

\* C1: every defect of a returned result has area_mm >= min_defect_size, and
\* an extracted contour whose area_mm equals min_defect_size is among the
\* defects (the discard test is strict).
C1_SizeFilter ==
    Returned =>
        /\ \A i \in DOMAIN ret.defects :
               /\ ret.defects[i].area_mm >= call.min_size
               /\ ret.defects[i].area_mm * 2 = ret.defects[i].area_pixels * PixelToMm
        /\ \A j \in DOMAIN Extracted :
               Extracted[j].area2 * PixelToMm = 2 * call.min_size =>
                   \E i \in DOMAIN ret.defects :
                       ret.defects[i].contour = Extracted[j].id

\* A result that keeps a contour exactly at the threshold and has dropped
\* another one below it.
C1_Witness ==
    /\ Returned
    /\ call.min_size > 0
    /\ \E i \in DOMAIN ret.defects : ret.defects[i].area_mm = call.min_size
    /\ Len(ret.defects) < Len(Extracted)

\* C3: pass and fail are complementary booleans, pass exactly when
\* total_defects is 0 and fail exactly when it is positive; when no contour
\* survives extraction and the size filter, total_defects is 0 and pass holds.
C3_PassFail ==
    Returned =>
        LET st == ret.statistics
        IN  /\ st.pass \in BOOLEAN /\ st.fail \in BOOLEAN
            /\ st.pass = ~st.fail
            /\ st.pass = (st.total_defects = 0)
            /\ st.fail = (st.total_defects > 0)
            /\ Survivors = <<>> => st.total_defects = 0 /\ st.pass

\* A passing result on an image whose contours were all lost or discarded.
C3_Witness ==
    /\ Returned
    /\ call.image.regions # <<>>
    /\ Survivors = <<>>
    /\ ret.statistics.pass

\* The positions of the defects of category t in the returned list.
TypeIndices(t) == {i \in DOMAIN ret.defects : ret.defects[i].type = t}

RECURSIVE SumCounts(_, _)
SumCounts(dict, keys) ==
    IF keys = {} THEN 0
    ELSE LET k == CHOOSE x \in keys : TRUE
         IN  dict[k] + SumCounts(dict, keys \ {k})

\* C4: the keys of defect_types are exactly the categories occurring in
\* defects, each count is the number of defects of that category, the counts
\* sum to total_defects, and total_defects is the length of defects.
C4_DefectTypes ==
    Returned =>
        LET st == ret.statistics
        IN  /\ DOMAIN st.defect_types =
                   {ret.defects[i].type : i \in DOMAIN ret.defects}
            /\ \A t \in DOMAIN st.defect_types :
                   /\ st.defect_types[t] = Cardinality(TypeIndices(t))
                   /\ st.defect_types[t] > 0
            /\ SumCounts(st.defect_types, DOMAIN st.defect_types) = st.total_defects
            /\ st.total_defects = Len(ret.defects)

\* A result in which one category occurs twice.
C4_Witness ==
    /\ Returned
    /\ \E t \in DOMAIN ret.statistics.defect_types :
           ret.statistics.defect_types[t] >= 2

\* C5: total_area_mm is the sum of area_mm over the returned defects, which
\* is the sum over the surviving contours alone, and 0 when there are none.
C5_TotalArea ==
    Returned =>
        /\ ret.statistics.total_area_mm =
               SeqSum([i \in DOMAIN ret.defects |-> ret.defects[i].area_mm],
                      Len(ret.defects))
        /\ ret.statistics.total_area_mm =
               SeqSum([j \in DOMAIN Survivors |-> AreaMm(Survivors[j].area2)],
                      Len(Survivors))
        /\ ret.defects = <<>> => ret.statistics.total_area_mm = 0

\* A result with a positive total from which a contour of positive area was
\* discarded.
C5_Witness ==
    /\ Returned
    /\ ret.statistics.total_area_mm > 0
    /\ \E j \in DOMAIN Extracted :
           /\ Extracted[j].area2 > 0
           /\ AreaMm(Extracted[j].area2) < call.min_size

\* C6: defects is the subsequence of the extracted contours with
\* area_mm >= min_defect_size, in extraction order, one defect per contour,
\* each keeping the contour's area_pixels, bbox, aspect_ratio and circularity.
C6_Subsequence ==
    Returned =>
        /\ Len(ret.defects) = Len(Survivors)
        /\ \A i \in DOMAIN ret.defects :
               LET d == ret.defects[i]
                   c == Survivors[i]
               IN  /\ d.contour = c.id
                   /\ d.area_pixels = c.area2
                   /\ d.bbox = <<c.x, c.y, c.w, c.h>>
                   /\ d.aspect_ratio = (IF c.h = 0 THEN 0 ELSE (c.w * 1000) \div c.h)
                   /\ d.circularity =
                          (IF c.perim10 = 0 THEN 0
                           ELSE (FourPi * c.area2 * 50) \div (c.perim10 * c.perim10))

\* Two defects returned in extraction order, which here is neither the order
\* of their contour numbers nor all that was extracted.
C6_Witness ==
    /\ Returned
    /\ Len(ret.defects) >= 2
    /\ ret.defects[1].contour > ret.defects[2].contour
    /\ Len(call.image.regions) >= 2
    /\ ret.defects[1].contour = Extracted[1].id

\* The rules of _classify_defect, on the classified features.
Rule1 == features[2] > 3000 \/ features[2] < 330
Rule2 == features[3] > 700
Rule3 == features[3] < 300
Rule4 == 10000 < features[1] /\ features[1] < 50000
Rule5 == features[1] > 50000

\* C2: _classify_defect returns exactly one of the six categories, the one
\* of the first matching rule; rule 1 wins over circularity and area, and a
\* value equal to a threshold does not match the rule that names it.
C2_FirstMatch ==
    category # "" =>
        /\ category \in Categories
        /\ (category = "Crack") = Rule1
        /\ (category = "Hole") = (~Rule1 /\ Rule2)
        /\ (category = "Irregular Shape") = (~Rule1 /\ ~Rule2 /\ Rule3)
        /\ (category = "Misalignment") = (~Rule1 /\ ~Rule2 /\ ~Rule3 /\ Rule4)
        /\ (category = "Large Defect") =
               (~Rule1 /\ ~Rule2 /\ ~Rule3 /\ ~Rule4 /\ Rule5)
        /\ (category = "Small Defect") =
               (~Rule1 /\ ~Rule2 /\ ~Rule3 /\ ~Rule4 /\ ~Rule5)
        /\ (features[2] = 5000 /\ features[3] = 900) => category = "Crack"
        /\ features[2] \in {330, 3000} =>
               /\ category # "Crack"
               /\ features[3] = 700 => category # "Hole"
               /\ features[3] = 300 => category # "Irregular Shape"
               /\ (features[3] \in {300, 700} /\ features[1] \in {10000, 50000})
                      => category = "Small Defect"

\* aspect_ratio 5.0 with circularity 0.9 has been classified, as Crack.
C2_Witness ==
    /\ features[2] = 5000
    /\ features[3] = 900
    /\ category = "Crack"

\* What a step of detect_defects or of an update_* method must satisfy.
C7_Step ==
    /\ lastOp' = "detect_defects" =>
           /\ call' = [image |-> arg_image, min_size |-> requested.min_size,
                       threshold1 |-> requested.threshold1,
                       threshold2 |-> requested.threshold2]
           /\ ret'.status = "returned" =>
                  /\ \A i \in DOMAIN ret'.defects :
                         ret'.defects[i].area_mm >= requested.min_size
                  /\ Len(ret'.defects) =
                         Cardinality({j \in DOMAIN arg_image.regions :
                             /\ arg_image.regions[j].floor > requested.threshold1
                             /\ arg_image.regions[j].peak > requested.threshold2
                             /\ AreaMm(arg_image.regions[j].area2)
                                    >= requested.min_size})
    /\ lastOp' \in {"update_min_defect_size", "update_thresholds"} =>
           /\ ret' = ret
           /\ detection_results' = detection_results

\* C7: a detection is governed by the values the latest update_* calls set,
\* and an update_* call leaves the result returned before it as it was.
C7_ConfigGoverns == [][C7_Step]_vars

\* A result computed after an update, then followed by updates under which
\* one of its defects would have been discarded or lost.
C7_Witness ==
    /\ lastOp \in {"update_min_defect_size", "update_thresholds"}
    /\ Returned
    /\ call.min_size # DefaultMinDefectSize
    /\ \E i \in DOMAIN ret.defects : ret.defects[i].area_mm < min_defect_size
    /\ call.threshold1 # edge_threshold1

\* A detect_defects call that follows another with no update in between.
C8_Step ==
    /\ (calls >= 1 /\ calls' = calls + 1) => ret' = ret
    \* and any call that reads the image and the field values the previous
    \* call read, whatever was updated and restored in between
    /\ (lastOp' = "detect_defects" /\ ret.status # "none" /\ call' = call)
           => ret' = ret

\* C8: a second detect_defects call on the same image, with no update_* call
\* in between, returns what the first returned.
C8_Idempotent == [][C8_Step]_vars

\* Two calls in a row have returned defects.
C8_Witness ==
    /\ calls = 2
    /\ Returned
    /\ Len(ret.defects) >= 2

\* What a call on an invalid image must do, directly and from the window.
C9_Step ==
    /\ (lastOp' = "detect_defects" /\ arg_image \in InvalidImages) =>
           /\ ret'.status = "raised"
           /\ DOMAIN ret' = {"status"}
    /\ (lastOp' = "gui_detect_defects" /\ current_image \in InvalidImages) =>
           /\ dialog' \in {"showerror", "showwarning"}
           /\ detection_results' = detection_results
    /\ (lastOp' = "gui_detect_defects" /\ current_image \notin InvalidImages
            /\ ret'.status = "raised") =>
           /\ dialog' = "showerror"
           /\ detection_results' = detection_results

C10_Degenerate ==
    (lastOp = "detect_defects" /\ call.image.kind = "grid") =>
        /\ Returned
        /\ \A j \in DOMAIN Survivors :
               \E i \in DOMAIN ret.defects :
                   /\ ret.defects[i].contour = Survivors[j].id
                   /\ ret.defects[i].type \in Categories
                   /\ Survivors[j].h = 0 => ret.defects[i].aspect_ratio = 0
                   /\ Survivors[j].perim10 = 0 => ret.defects[i].circularity = 0

\* A result with a defect of height 0 and a defect of perimeter 0 and
\* positive height.
C10_Witness ==
    /\ Returned
    /\ \E i \in DOMAIN ret.defects :
           ret.defects[i].bbox[4] = 0 /\ ret.defects[i].aspect_ratio = 0
    /\ \E j \in DOMAIN Survivors :
           /\ Survivors[j].perim10 = 0 /\ Survivors[j].h > 0
           /\ ret.defects[j].circularity = 0

\* What a detect_defects step, direct or from the window, does to the image
\* it was given and where it puts its drawing.
C11_Step ==
    /\ lastOp' = "detect_defects" =>
           /\ arg_image' = arg_image
           /\ ret'.status = "returned" =>
                  /\ Len(ret'.annotated_image.draw) = Len(ret'.defects)
                  /\ [ret'.annotated_image EXCEPT !.draw = <<>>] = arg_image
    /\ (lastOp' = "gui_detect_defects" /\ current_image # NoneImage) =>
           /\ current_image' = current_image
           /\ detection_results'.annotated_image.draw # <<>> =>
                  current_image'.draw = <<>>

\* C11: detect_defects leaves the image passed to it as it was: contours,
\* rectangles and labels are drawn on the separate copy returned as
\* annotated_image, so the caller's image (the window's current_image) is
\* after every detection what it was before.
C11_InputUntouched == [][C11_Step]_vars

\* Both the direct caller and the window hold a result with drawings, and
\* their images carry none.
C11_Witness ==
    /\ Returned
    /\ lastOp = "detect_defects"
    /\ ret.annotated_image.draw # <<>>
    /\ arg_image.draw = <<>>
    /\ detection_results # NoneResult
    /\ detection_results.annotated_image.draw # <<>>
    /\ current_image.draw = <<>>

\* The colour the claim names for each category, as BGR.
NamedColor(t) ==
    CASE t = "Crack" -> <<0, 0, 255>>               \* red
      [] t = "Hole" -> <<255, 0, 0>>                \* blue
      [] t = "Irregular Shape" -> <<0, 165, 255>>   \* orange
      [] t = "Misalignment" -> <<0, 255, 255>>      \* yellow
      [] t = "Large Defect" -> <<255, 0, 255>>      \* magenta
      [] t = "Small Defect" -> <<0, 255, 0>>        \* green
      [] OTHER -> <<255, 255, 255>>

\* C12: every category _classify_defect returns has its own entry in the
\* colour table of _get_defect_color, so each defect is drawn in the colour
\* of its category and the white fallback is never used.
C12_NoWhite ==
    Returned =>
        \A i \in DOMAIN ret.defects :
            LET d == ret.defects[i]
                drawn == ret.annotated_image.draw[i]
            IN  /\ d.type \in Categories
                /\ drawn.label.type = d.type
                /\ drawn.color = NamedColor(d.type)
                /\ drawn.color # <<255, 255, 255>>
                /\ \A j \in DOMAIN ret.defects :
                       ret.defects[j].type # d.type =>
                           ret.annotated_image.draw[j].color # drawn.color

\* A Small Defect, the category of the last rule, has been drawn in green
\* next to a defect of another category.
C12_Witness ==
    /\ Returned
    /\ Len(ret.defects) >= 2
    /\ \E i \in DOMAIN ret.defects :
           /\ ret.defects[i].type = "Small Defect"
           /\ ret.annotated_image.draw[i].color = <<0, 255, 0>>
    /\ \E i \in DOMAIN ret.defects : ret.defects[i].type # "Small Defect"

\* C13: in the window, under any interleaving of Start/Stop Scan clicks and
\* timer firings, at most one scan_loop callback is pending: stopping a scan
\* and starting a new one never leaves two scan_loop chains rescheduling
\* themselves.
C13_OnePending == pending <= 1

\* The image a result was computed from: its annotated image without the
\* drawing.
SourceImage(results) == [results.annotated_image EXCEPT !.draw = <<>>]

\* The label of that source: the name of the file whose pixels it is, and
\* 'Camera Scan' for a camera frame.  (The files and the camera frames used
\* here all differ in their pixels.)
SourceLabel(results) ==
    IF \E f \in Files : Imread(f) = SourceImage(results)
    THEN PathName(CHOOSE f \in Files : Imread(f) = SourceImage(results))
    ELSE "Camera Scan"

\* C14: a report written by export_report carries the label of the source
\* its detection results were computed from: the file name of the loaded
\* image when detection ran on a loaded file, 'Camera Scan' when it ran on a
\* camera frame.
C14_ReportLabel ==
    report.written => report.image_name = SourceLabel(report.results)

====
